---- MODULE Spec2Model ----
(***************************************************************************)
(* The CIFAR-10 training notebook (cifar_example/cntk_cifar10.ipynb) run   *)
(* top to bottom: the training cell (create_reader, model and trainer,     *)
(* the epoch / minibatch loop) followed by the test cell (create_reader,   *)
(* the minibatch generator, test_minibatch, the weighted average).         *)
(*                                                                         *)
(* The external framework (CNTK) is seen only through the calls the        *)
(* notebook makes on it: MinibatchSource construction, next_minibatch,     *)
(* train_minibatch, test_minibatch, update_with_trainer, epoch_summary.    *)
(* The variables requested, train_calls, test_calls, summaries, updates,   *)
(* requests, trained_on, tested_on, constructed and last record those     *)
(* calls.                                                                  *)
(***************************************************************************)
EXTENDS Integers, Sequences, FiniteSets, TLC

VARIABLES
    cfg,              \* the literals of the two cells (max_epochs, sizes)
    files,            \* the data files that exist on disk
    pc,               \* the statement the notebook is at
    error,            \* the exception that stopped the notebook, or "none"
    reader_train,     \* <<>> or <<the training MinibatchSource>>
    reader_test,      \* <<>> or <<the test MinibatchSource>>
    trainer,          \* TRUE once initialise_trainer returned
    input_map,        \* <<>> or <<the map file of the reader whose streams it names>>
    epoch,            \* the epoch loop's index
    gen,              \* the live minibatch_generator
    batch_data,       \* <<>> or <<the minibatch the generator yielded last>>
    metric_per_batch, \* the test cell's list of test_minibatch results
    batch_weight,     \* the test cell's list of weights
    reported,         \* TRUE once the average test error was printed
    constructed,      \* map files a MinibatchSource was constructed on
    requested,        \* per map file, the samples asked of its reader
    requests,         \* the sizes asked through the live generator, in order,
                      \* as runs of equal sizes
    train_calls,      \* number of train_minibatch calls
    test_calls,       \* number of test_minibatch calls
    trained_on,       \* map files whose data train_minibatch received
    tested_on,        \* map files whose data test_minibatch received
    summaries,        \* number of epoch_summary calls
    updates,          \* number of update_with_trainer calls
    last              \* the last call made on the framework in a loop

vars == <<cfg, files, pc, error, reader_train, reader_test, trainer, input_map,
          epoch, gen, batch_data, metric_per_batch, batch_weight, reported,
          constructed, requested, requests, train_calls, test_calls,
          trained_on, tested_on, summaries, updates, last>>

\* ------------------------------------------------------------------------
\* The literals of the notebook.

max_epochs == 20
train_epoch_size == 50000
train_minibatch_size == 64
test_epoch_size == 10000
test_minibatch_size == 16

TRAIN_MAP == "train_map.txt"
TEST_MAP == "test_map.txt"
MEAN_FILE == "CIFAR-10_mean.xml"
AllFiles == {TRAIN_MAP, TEST_MAP, MEAN_FILE}

NotebookCfg ==
    [max_epochs |-> max_epochs,
     train_epoch_size |-> train_epoch_size,
     train_minibatch_size |-> train_minibatch_size,
     test_epoch_size |-> test_epoch_size,
     test_minibatch_size |-> test_minibatch_size]

\* Bounds of the specification in which the literals are edited.
MaxEpochs == 2
MaxEpochSize == 5
MaxBatchSize == 3

EditedCfgs ==
    [max_epochs : 0..MaxEpochs,
     train_epoch_size : 0..MaxEpochSize,
     train_minibatch_size : 1..MaxBatchSize,
     test_epoch_size : 0..MaxEpochSize,
     test_minibatch_size : 1..MaxBatchSize]

\* ------------------------------------------------------------------------
\* itertools.repeat, itertools.chain and list, as far as the notebook uses
\* them: an iterator is the pair of a repeat object and a list not yet
\* consumed.

repeat(object, times) == [object |-> object, times |-> times]

chain(first, second) == [first |-> first, second |-> second]

HasNext(it) == it.first.times > 0 \/ Len(it.second) > 0

NextValue(it) ==
    IF it.first.times > 0 THEN it.first.object ELSE Head(it.second)

Advance(it) ==
    IF it.first.times > 0
    THEN [it EXCEPT !.first.times = @ - 1]
    ELSE [it EXCEPT !.second = Tail(@)]

\* list(it): the repeat's remaining items, then the second iterable's.
list(it) ==
    [i \in 1..(it.first.times + Len(it.second)) |->
        IF i <= it.first.times THEN it.first.object
        ELSE it.second[i - it.first.times]]

\* Variant: the remainder batch is dropped.
batch_size_iterator_from_NoRemainder(epoch_size, batch_size) ==
    chain(repeat(batch_size, epoch_size \div batch_size), <<>>)

\* Variant: the remainder is appended even when it is zero (>= for >).
batch_size_iterator_from_ZeroRemainder(epoch_size, batch_size) ==
    chain(repeat(batch_size, epoch_size \div batch_size),
          <<epoch_size % batch_size>>)

batch_size_iterator_from(epoch_size, batch_size) ==
    LET complete_batch_count == epoch_size \div batch_size
        remainder == epoch_size % batch_size
        remainder_list == IF remainder > 0 THEN <<remainder>> ELSE <<>>
    IN  chain(repeat(batch_size, complete_batch_count), remainder_list)

\* ------------------------------------------------------------------------
\* create_reader: the guard on the two files, then the MinibatchSource.

exists(path) == path \in files

\* Variant: only the map file is looked for.
create_reader_MapOnly(map_file, mean_file, train) ==
    IF ~exists(map_file)
    THEN [raised |-> TRUE, reader |-> <<>>]
    ELSE [raised |-> FALSE,
          reader |-> <<[map_file |-> map_file, mean_file |-> mean_file]>>]

\* Variant: the guard joined with "and" in place of "or".
create_reader_BothMissing(map_file, mean_file, train) ==
    IF ~exists(map_file) /\ ~exists(mean_file)
    THEN [raised |-> TRUE, reader |-> <<>>]
    ELSE [raised |-> FALSE,
          reader |-> <<[map_file |-> map_file, mean_file |-> mean_file]>>]

create_reader(map_file, mean_file, train) ==
    IF ~exists(map_file) \/ ~exists(mean_file)
    THEN [raised |-> TRUE, reader |-> <<>>]
    ELSE [raised |-> FALSE,
          reader |-> <<[map_file |-> map_file, mean_file |-> mean_file]>>]

\* minibatch_generator(data_reader, input_map, minibatch_size, epoch_size):
\* a generator object; its body (and so batch_size_iterator_from) runs at the
\* first next().
minibatch_generator(data_reader, imap, minibatch_size, epoch_size) ==
    [data_reader |-> data_reader, input_map |-> imap,
     minibatch_size |-> minibatch_size, epoch_size |-> epoch_size,
     started |-> FALSE, it |-> chain(repeat(0, 0), <<>>)]

NoGen == minibatch_generator("", <<>>, 0, 0)

\* The iterator the generator's for loop is over at its next resumption.
GenIterator(g) ==
    IF g.started THEN g.it
    ELSE batch_size_iterator_from(g.epoch_size, g.minibatch_size)

\* The record of the sizes asked through one generator: runs
\* [size, count] of equal consecutive sizes, oldest first.
LogRequest(log, size) ==
    IF log # <<>> /\ log[Len(log)].size = size
    THEN [log EXCEPT ![Len(log)].count = @ + 1]
    ELSE Append(log, [size |-> size, count |-> 1])

\* The sizes a record stands for, one entry per request.
RECURSIVE Sizes(_)
Sizes(log) ==
    IF log = <<>> THEN <<>>
    ELSE [i \in 1..Head(log).count |-> Head(log).size] \o Sizes(Tail(log))

\* The number of requests in a record.
RECURSIVE NumRequests(_)
NumRequests(log) ==
    IF log = <<>> THEN 0 ELSE Head(log).count + NumRequests(Tail(log))

\* data_reader.next_minibatch(batch_size, input_map=input_map)
next_minibatch(data_reader, batch_size, imap) ==
    [reader |-> data_reader, size |-> batch_size, input_map |-> imap]

\* ------------------------------------------------------------------------
\* Initial states.

InitRest ==
    /\ files \in SUBSET AllFiles
    /\ pc = "train_create_reader"
    /\ error = "none"
    /\ reader_train = <<>>
    /\ reader_test = <<>>
    /\ trainer = FALSE
    /\ input_map = <<>>
    /\ epoch = 0
    /\ gen = NoGen
    /\ batch_data = <<>>
    /\ metric_per_batch = <<>>
    /\ batch_weight = <<>>
    /\ reported = FALSE
    /\ constructed = {}
    /\ requested = [f \in {TRAIN_MAP, TEST_MAP} |-> 0]
    /\ requests = <<>>
    /\ train_calls = 0
    /\ test_calls = 0
    /\ trained_on = {}
    /\ tested_on = {}
    /\ summaries = 0
    /\ updates = 0
    /\ last = "none"

Init == cfg = NotebookCfg /\ InitRest

InitEdited == cfg \in EditedCfgs /\ InitRest

\* ------------------------------------------------------------------------
\* The training cell.

\* The sum of s[lo..hi], halving the range.
RECURSIVE SumRange(_, _, _)
SumRange(s, lo, hi) ==
    IF lo > hi THEN 0
    ELSE IF lo = hi THEN s[lo]
    ELSE LET mid == (lo + hi) \div 2
         IN  SumRange(s, lo, mid) + SumRange(s, mid + 1, hi)

SumSeq(s) == SumRange(s, 1, Len(s))

\* reader_train = create_reader(.../train_map.txt, .../CIFAR-10_mean.xml, True)
TrainCreateReader ==
    /\ pc = "train_create_reader"
    /\ LET r == create_reader(TRAIN_MAP, MEAN_FILE, TRUE)
       IN  IF r.raised
           THEN /\ error' = "RuntimeError"
                /\ pc' = "train_failed"
                /\ UNCHANGED <<reader_train, constructed>>
           ELSE /\ reader_train' = r.reader
                /\ constructed' = constructed \cup {TRAIN_MAP}
                /\ pc' = "train_init"
                /\ UNCHANGED error
    /\ UNCHANGED <<cfg, files, reader_test, trainer, input_map, epoch, gen,
                   batch_data, metric_per_batch, batch_weight, reported,
                   requested, requests, train_calls, test_calls, trained_on,
                   tested_on, summaries, last,
                   updates>>

\* progress_printer, initialise_model, initialise_trainer, input_map_for,
\* max_epochs = 20
TrainInit ==
    /\ pc = "train_init"
    /\ trainer' = TRUE
    /\ input_map' = <<reader_train[1].map_file>>
    /\ pc' = "epoch_loop"
    /\ UNCHANGED <<cfg, files, error, reader_train, reader_test, epoch, gen,
                   batch_data, metric_per_batch, batch_weight, reported,
                   constructed, requested, requests, train_calls, test_calls,
                   trained_on, tested_on, summaries, last,
                   updates>>

\* Variant: minibatch_size and epoch_size passed in each other's place.
EpochLoop_SwappedSizes ==
    /\ pc = "epoch_loop"
    /\ IF epoch < cfg.max_epochs
       THEN /\ gen' = minibatch_generator(reader_train[1].map_file, input_map,
                                          cfg.train_epoch_size,
                                          cfg.train_minibatch_size)
            /\ requests' = <<>>
            /\ pc' = "batch_loop"
       ELSE /\ pc' = "test_create_reader"
            /\ UNCHANGED <<gen, requests>>
    /\ UNCHANGED <<cfg, files, error, reader_train, reader_test, trainer,
                   input_map, epoch, batch_data, metric_per_batch,
                   batch_weight, reported, constructed, requested,
                   train_calls, test_calls, trained_on, tested_on, summaries,
                   last,
                   updates>>

\* for epoch in range(max_epochs): the next epoch's generator is created, or
\* the loop (and with it the training cell) ends.
EpochLoop ==
    /\ pc = "epoch_loop"
    /\ IF epoch < cfg.max_epochs
       THEN /\ gen' = minibatch_generator(reader_train[1].map_file, input_map,
                                          cfg.train_minibatch_size,
                                          cfg.train_epoch_size)
            /\ requests' = <<>>
            /\ pc' = "batch_loop"
       ELSE /\ pc' = "test_create_reader"
            /\ UNCHANGED <<gen, requests>>
    /\ UNCHANGED <<cfg, files, error, reader_train, reader_test, trainer,
                   input_map, epoch, batch_data, metric_per_batch,
                   batch_weight, reported, constructed, requested,
                   train_calls, test_calls, trained_on, tested_on, summaries,
                   last,
                   updates>>

\* One resumption of the live generator: it fetches the next minibatch and
\* yields it, or its for loop is exhausted and it stops.
GeneratorNext(onYield, onStop) ==
    LET it == GenIterator(gen)
    IN  IF HasNext(it)
        THEN /\ batch_data' = <<next_minibatch(gen.data_reader, NextValue(it),
                                               gen.input_map)>>
             /\ gen' = [gen EXCEPT !.started = TRUE, !.it = Advance(it)]
             /\ requested' = [requested EXCEPT
                                 ![gen.data_reader] = @ + NextValue(it)]
             /\ requests' = LogRequest(requests, NextValue(it))
             /\ last' = "fetch"
             /\ pc' = onYield
        ELSE /\ gen' = [gen EXCEPT !.started = TRUE, !.it = it]
             /\ pc' = onStop
             /\ UNCHANGED <<batch_data, requested, requests, last>>

\* for batch_data in minibatch_generator(reader_train, input_map, 64, 50000)
TrainNextBatch ==
    /\ pc = "batch_loop"
    /\ GeneratorNext("train_minibatch", "epoch_summary")
    /\ UNCHANGED <<cfg, files, error, reader_train, reader_test, trainer,
                   input_map, epoch, metric_per_batch, batch_weight, reported,
                   constructed, train_calls, test_calls, trained_on,
                   tested_on, summaries,
                   updates>>

\* Variant: the progress update is left out of the inner loop.
TrainMinibatch_NoUpdate ==
    /\ pc = "train_minibatch"
    /\ train_calls' = train_calls + 1
    /\ trained_on' = trained_on \cup {batch_data[1].reader}
    /\ last' = "train"
    /\ pc' = "batch_loop"
    /\ UNCHANGED <<cfg, files, error, reader_train, reader_test, trainer,
                   input_map, epoch, gen, batch_data, metric_per_batch,
                   batch_weight, reported, constructed, requested, requests,
                   test_calls, tested_on, summaries,
                   updates>>

\* trainer.train_minibatch(batch_data)
TrainMinibatch ==
    /\ pc = "train_minibatch"
    /\ train_calls' = train_calls + 1
    /\ trained_on' = trained_on \cup {batch_data[1].reader}
    /\ last' = "train"
    /\ pc' = "update"
    /\ UNCHANGED <<cfg, files, error, reader_train, reader_test, trainer,
                   input_map, epoch, gen, batch_data, metric_per_batch,
                   batch_weight, reported, constructed, requested, requests,
                   test_calls, tested_on, summaries,
                   updates>>

\* progress_printer.update_with_trainer(trainer, with_metric=True)
UpdateProgress ==
    /\ pc = "update"
    /\ updates' = updates + 1
    /\ last' = "update"
    /\ pc' = "batch_loop"
    /\ UNCHANGED <<cfg, files, error, reader_train, reader_test, trainer,
                   input_map, epoch, gen, batch_data, metric_per_batch,
                   batch_weight, reported, constructed, requested, requests,
                   train_calls, test_calls, trained_on, tested_on, summaries>>

\* Variant: the test cell is entered after each epoch summary.
EpochSummary_TestEachEpoch ==
    /\ pc = "epoch_summary"
    /\ summaries' = summaries + 1
    /\ epoch' = epoch + 1
    /\ last' = "summary"
    /\ pc' = "test_create_reader"
    /\ UNCHANGED <<cfg, files, error, reader_train, reader_test, trainer,
                   input_map, gen, batch_data, metric_per_batch, batch_weight,
                   reported, constructed, requested, requests, train_calls,
                   test_calls, trained_on, tested_on,
                   updates>>

\* progress_printer.epoch_summary(with_metric=True), then the next epoch
EpochSummary ==
    /\ pc = "epoch_summary"
    /\ summaries' = summaries + 1
    /\ epoch' = epoch + 1
    /\ last' = "summary"
    /\ pc' = "epoch_loop"
    /\ UNCHANGED <<cfg, files, error, reader_train, reader_test, trainer,
                   input_map, gen, batch_data, metric_per_batch, batch_weight,
                   reported, constructed, requested, requests, train_calls,
                   test_calls, trained_on, tested_on,
                   updates>>

\* ------------------------------------------------------------------------
\* Between the two cells the files on disk may change; create_reader reads
\* the disk only at its guard, so a change elsewhere is not observable.
FilesChange ==
    /\ pc = "test_create_reader"
    /\ files' \in (SUBSET AllFiles) \ {files}
    /\ UNCHANGED <<cfg, pc, error, reader_train, reader_test, trainer,
                   input_map, epoch, gen, batch_data, metric_per_batch,
                   batch_weight, reported, constructed, requested, requests,
                   train_calls, test_calls, trained_on, tested_on, summaries,
                   last,
                   updates>>

\* ------------------------------------------------------------------------
\* The test cell.

\* reader_test = create_reader(.../test_map.txt, .../CIFAR-10_mean.xml, False)
TestCreateReader ==
    /\ pc = "test_create_reader"
    /\ LET r == create_reader(TEST_MAP, MEAN_FILE, FALSE)
       IN  IF r.raised
           THEN /\ error' = "RuntimeError"
                /\ pc' = "test_failed"
                /\ UNCHANGED <<reader_test, constructed>>
           ELSE /\ reader_test' = r.reader
                /\ constructed' = constructed \cup {TEST_MAP}
                /\ pc' = "test_setup"
                /\ UNCHANGED error
    /\ UNCHANGED <<cfg, files, reader_train, trainer, input_map, epoch, gen,
                   batch_data, metric_per_batch, batch_weight, reported,
                   requested, requests, train_calls, test_calls, trained_on,
                   tested_on, summaries, last,
                   updates>>

\* Variant: the test generator is built on reader_train.
TestSetup_TrainReader ==
    /\ pc = "test_setup"
    /\ gen' = minibatch_generator(reader_train[1].map_file, input_map,
                                  cfg.test_minibatch_size, cfg.test_epoch_size)
    /\ requests' = <<>>
    /\ pc' = "test_loop"
    /\ UNCHANGED <<cfg, files, error, reader_train, reader_test, trainer,
                   input_map, epoch, batch_data, metric_per_batch,
                   batch_weight, reported, constructed, requested,
                   train_calls, test_calls, trained_on, tested_on, summaries,
                   last,
                   updates>>

\* epoch_size = 10000; minibatch_size = 16; batch_gen = minibatch_generator(...)
TestSetup ==
    /\ pc = "test_setup"
    /\ gen' = minibatch_generator(reader_test[1].map_file, input_map,
                                  cfg.test_minibatch_size, cfg.test_epoch_size)
    /\ requests' = <<>>
    /\ pc' = "test_loop"
    /\ UNCHANGED <<cfg, files, error, reader_train, reader_test, trainer,
                   input_map, epoch, batch_data, metric_per_batch,
                   batch_weight, reported, constructed, requested,
                   train_calls, test_calls, trained_on, tested_on, summaries,
                   last,
                   updates>>

\* [... for batch_data in batch_gen]: the comprehension resumes the generator
TestNextBatch ==
    /\ pc = "test_loop"
    /\ GeneratorNext("test_minibatch", "batch_weight")
    /\ UNCHANGED <<cfg, files, error, reader_train, reader_test, trainer,
                   input_map, epoch, metric_per_batch, batch_weight, reported,
                   constructed, train_calls, test_calls, trained_on,
                   tested_on, summaries,
                   updates>>

\* trainer.test_minibatch(batch_data), appended to metric_per_batch; the
\* metric is the framework's, kept here as the batch it was computed on.
TestMinibatch ==
    /\ pc = "test_minibatch"
    /\ metric_per_batch' = Append(metric_per_batch, [batch |-> batch_data[1]])
    /\ test_calls' = test_calls + 1
    /\ tested_on' = tested_on \cup {batch_data[1].reader}
    /\ last' = "test"
    /\ pc' = "test_loop"
    /\ UNCHANGED <<cfg, files, error, reader_train, reader_test, trainer,
                   input_map, epoch, gen, batch_data, batch_weight, reported,
                   constructed, requested, requests, train_calls, trained_on,
                   summaries,
                   updates>>

\* Variant: the weights are computed from the training sizes.
BatchWeight_TrainSizes ==
    /\ pc = "batch_weight"
    /\ batch_weight' = list(batch_size_iterator_from(cfg.train_epoch_size,
                                                     cfg.train_minibatch_size))
    /\ pc' = "report"
    /\ UNCHANGED <<cfg, files, error, reader_train, reader_test, trainer,
                   input_map, epoch, gen, batch_data, metric_per_batch,
                   reported, constructed, requested, requests, train_calls,
                   test_calls, trained_on, tested_on, summaries, last,
                   updates>>

\* batch_weight = list(batch_size_iterator_from(epoch_size, minibatch_size))
BatchWeight ==
    /\ pc = "batch_weight"
    /\ batch_weight' = list(batch_size_iterator_from(cfg.test_epoch_size,
                                                     cfg.test_minibatch_size))
    /\ pc' = "report"
    /\ UNCHANGED <<cfg, files, error, reader_train, reader_test, trainer,
                   input_map, epoch, gen, batch_data, metric_per_batch,
                   reported, constructed, requested, requests, train_calls,
                   test_calls, trained_on, tested_on, summaries, last,
                   updates>>

\* print(... np.average(metric_per_batch, weights=batch_weight)): numpy
\* raises when the shapes differ or when the weights sum to zero.
Report ==
    /\ pc = "report"
    /\ IF Len(metric_per_batch) # Len(batch_weight)
       THEN error' = "TypeError" /\ pc' = "report_failed" /\ UNCHANGED reported
       ELSE IF SumSeq(batch_weight) = 0
       THEN error' = "ZeroDivisionError" /\ pc' = "report_failed"
            /\ UNCHANGED reported
       ELSE reported' = TRUE /\ pc' = "done" /\ UNCHANGED error
    /\ UNCHANGED <<cfg, files, reader_train, reader_test, trainer, input_map,
                   epoch, gen, batch_data, metric_per_batch, batch_weight,
                   constructed, requested, requests, train_calls, test_calls,
                   trained_on, tested_on, summaries, last,
                   updates>>

Next ==
    \/ TrainCreateReader
    \/ TrainInit
    \/ EpochLoop
    \/ TrainNextBatch
    \/ TrainMinibatch
    \/ UpdateProgress
    \/ EpochSummary
    \/ FilesChange
    \/ TestCreateReader
    \/ TestSetup
    \/ TestNextBatch
    \/ TestMinibatch
    \/ BatchWeight
    \/ Report

\* The notebook as written.
Spec == Init /\ [][Next]_vars

\* The notebook with its literals edited within the bounds.
SpecEdited == InitEdited /\ [][Next]_vars

\* The interpreter runs the single-threaded notebook on: a statement that
\* can run does run.
SpecFair == Spec /\ WF_vars(Next)

\* ------------------------------------------------------------------------
\* Properties.

LoopPcs == {"epoch_loop", "batch_loop", "train_minibatch", "update",
            "epoch_summary"}
TestLoopPcs == {"test_setup", "test_loop", "test_minibatch"}
AfterTestLoopPcs == {"batch_weight", "report", "report_failed", "done"}
AfterListPcs == {"report", "report_failed", "done"}
AfterTrainingPcs ==
    {"test_create_reader", "test_failed"} \cup TestLoopPcs \cup AfterTestLoopPcs

\* s is e div b entries equal to b, then one entry e mod b exactly when that
\* remainder is positive, and nothing else.
CompleteThenRemainder(s, e, b) ==
    /\ Len(s) = (e \div b) + (IF e % b > 0 THEN 1 ELSE 0)
    /\ \A i \in 1..(e \div b) : s[i] = b
    /\ (e % b > 0) => s[Len(s)] = e % b

\* C1: batch_size_iterator_from(epoch_size, batch_size) yields epoch_size div
\* batch_size entries equal to batch_size, then one entry epoch_size mod
\* batch_size if and only if that remainder is positive, last, and nothing
\* else: so is the list made of it (batch_weight), and so are the sizes a
\* generator has asked for once it is exhausted.
C1_YieldsCompleteThenRemainder ==
    /\ pc \in AfterListPcs =>
          CompleteThenRemainder(batch_weight, cfg.test_epoch_size,
                                cfg.test_minibatch_size)
    /\ pc = "batch_weight" =>
          CompleteThenRemainder(Sizes(requests), cfg.test_epoch_size,
                                cfg.test_minibatch_size)
    /\ pc = "epoch_summary" =>
          CompleteThenRemainder(Sizes(requests), cfg.train_epoch_size,
                                cfg.train_minibatch_size)

C1_Witness ==
    /\ pc = "report"
    /\ cfg.test_epoch_size = 5
    /\ cfg.test_minibatch_size = 2
    /\ batch_weight = <<2, 2, 1>>

\* The sizes s of an epoch of e samples in batches of b: they sum to e, none
\* is zero or above b, only the last may be below b, there are ceil(e / b).
SizesCoverEpoch(s, e, b) ==
    /\ SumSeq(s) = e
    /\ \A i \in 1..Len(s) : s[i] \in 1..b
    /\ \A i \in 1..(Len(s) - 1) : s[i] = b
    /\ Len(s) = (e + b - 1) \div b
    /\ (e = 0) => s = <<>>
    /\ (0 < e /\ e < b) => s = <<e>>

\* C6: the sizes produced by batch_size_iterator_from sum to epoch_size, each
\* lies in 1..batch_size, at most the last is smaller than batch_size, and
\* there are ceil(epoch_size / batch_size) of them.
C6_SizesCoverEpoch ==
    /\ pc \in AfterListPcs =>
          SizesCoverEpoch(batch_weight, cfg.test_epoch_size,
                          cfg.test_minibatch_size)
    /\ pc = "batch_weight" =>
          SizesCoverEpoch(Sizes(requests), cfg.test_epoch_size,
                          cfg.test_minibatch_size)
    /\ pc = "epoch_summary" =>
          SizesCoverEpoch(Sizes(requests), cfg.train_epoch_size,
                          cfg.train_minibatch_size)

C6_Witness ==
    /\ pc = "epoch_summary"
    /\ cfg.train_epoch_size = 2
    /\ cfg.train_minibatch_size = 3
    /\ Sizes(requests) = <<2>>

\* C2: a create_reader call raises RuntimeError whenever its map file or its
\* mean file is missing (either one alone), and then constructs no
\* MinibatchSource; with both files present it raises nothing and returns a
\* reader.
C2_CreateReaderGuard ==
    [][/\ (pc = "train_create_reader" /\ pc' # pc) =>
            IF TRAIN_MAP \notin files \/ MEAN_FILE \notin files
            THEN /\ error' = "RuntimeError"
                 /\ pc' = "train_failed"
                 /\ reader_train' = <<>>
                 /\ constructed' = constructed
            ELSE /\ error' = "none"
                 /\ reader_train' =
                       <<[map_file |-> TRAIN_MAP, mean_file |-> MEAN_FILE]>>
                 /\ constructed' = constructed \cup {TRAIN_MAP}
       /\ (pc = "test_create_reader" /\ pc' # pc) =>
            IF TEST_MAP \notin files \/ MEAN_FILE \notin files
            THEN /\ error' = "RuntimeError"
                 /\ pc' = "test_failed"
                 /\ reader_test' = <<>>
                 /\ constructed' = constructed
            ELSE /\ error' = "none"
                 /\ reader_test' =
                       <<[map_file |-> TEST_MAP, mean_file |-> MEAN_FILE]>>
                 /\ constructed' = constructed \cup {TEST_MAP}]_vars

C2_Witness ==
    /\ pc = "test_failed"
    /\ error = "RuntimeError"
    /\ TEST_MAP \in files
    /\ MEAN_FILE \notin files
    /\ TEST_MAP \notin constructed

\* The sizes of one pass over the training data as the notebook is written:
\* 781 requests of 64, then one of 16.
OneTrainingPass(s) ==
    /\ Len(s) = 782
    /\ \A i \in 1..781 : s[i] = 64
    /\ s[782] = 16
    /\ SumSeq(s) = 50000

\* C3: training makes exactly 20 passes over the training data: in each of
\* the 20 epochs the sizes asked of the training reader are 781 times 64 then
\* 16, 50000 in all; when the loop is left 20 * 50000 samples have been asked
\* for and train_minibatch was called 20 * 782 times; and the loop is left.
C3_TwentyPasses ==
    /\ [](pc = "epoch_summary" =>
            /\ OneTrainingPass(Sizes(requests))
            /\ epoch < 20
            /\ requested[TRAIN_MAP] = (epoch + 1) * 50000
            /\ train_calls = (epoch + 1) * 782)
    /\ [](pc \in AfterTrainingPcs =>
            /\ epoch = 20
            /\ summaries = 20
            /\ requested[TRAIN_MAP] = 20 * 50000
            /\ train_calls = 20 * 782)
    /\ (pc \in LoopPcs) ~> (pc = "test_create_reader")

C3_Witness ==
    /\ pc = "test_create_reader"
    /\ summaries = 20
    /\ train_calls = 15640
    /\ requested[TRAIN_MAP] = 1000000

\* C4: train_minibatch only ever receives data of the reader on
\* train_map.txt and test_minibatch only data of the reader on test_map.txt;
\* the test reader is asked for 625 batches of 16, 10000 samples, no
\* remainder; and once the test phase has started train_minibatch is not
\* called again.
C4_TrainOnTrainTestOnTest ==
    [][/\ trained_on' \subseteq {TRAIN_MAP}
       /\ tested_on' \subseteq {TEST_MAP}
       /\ requested[TEST_MAP] > 0 => constructed = {TRAIN_MAP, TEST_MAP}
       /\ (pc = "train_minibatch" /\ pc' # pc) =>
             batch_data[1].reader = TRAIN_MAP
       /\ (pc = "test_minibatch" /\ pc' # pc) =>
             batch_data[1].reader = TEST_MAP
       /\ pc' \in AfterTestLoopPcs =>
             /\ Sizes(requests') = [i \in 1..625 |-> 16]
             /\ requested'[TEST_MAP] = 10000
             /\ test_calls' = 625
       /\ pc \in AfterTrainingPcs =>
             /\ train_calls' = train_calls
             /\ requested'[TRAIN_MAP] = requested[TRAIN_MAP]]_vars

C4_Witness ==
    /\ pc = "done"
    /\ trained_on = {TRAIN_MAP}
    /\ tested_on = {TEST_MAP}
    /\ requested[TEST_MAP] = 10000
    /\ test_calls = 625

\* The stages of the pipeline, in order; a failed cell ends the run.
Stage(p) ==
    CASE p = "train_create_reader" -> 1
      [] p = "train_init" -> 2
      [] p \in LoopPcs -> 3
      [] p = "test_create_reader" -> 4
      [] p \in TestLoopPcs -> 5
      [] p \in {"batch_weight", "report"} -> 6
      [] p = "done" -> 7
      [] p \in {"train_failed", "test_failed", "report_failed"} -> 8

\* C5: the notebook is one linear pipeline: training reader, then model and
\* trainer, then every training minibatch of every epoch, then the test
\* reader, then every test minibatch, then the report; no stage is entered
\* again once a later one has started, and no test_minibatch call precedes a
\* train_minibatch call.
C5_LinearPipeline ==
    [][/\ Stage(pc') >= Stage(pc)
       /\ trainer' => reader_train' # <<>>
       /\ train_calls' > train_calls => (trainer /\ test_calls = 0)
       /\ requested'[TRAIN_MAP] # requested[TRAIN_MAP] =>
             (trainer /\ reader_test = <<>> /\ test_calls = 0)
       /\ reader_test' # <<>> =>
             (epoch' = cfg.max_epochs /\ summaries' = cfg.max_epochs)
       /\ test_calls' > test_calls => (reader_test # <<>> /\ ~reported)
       /\ reported' =>
             (pc' = "done" /\ test_calls' = Len(metric_per_batch')
              /\ gen'.started /\ ~HasNext(gen'.it))]_vars

C5_Witness ==
    /\ pc = "done"
    /\ reported
    /\ train_calls > 0
    /\ test_calls > 0

\* The number of minibatches of one training epoch.
BatchesPerEpoch ==
    (cfg.train_epoch_size + cfg.train_minibatch_size - 1)
        \div cfg.train_minibatch_size

\* C7: in the training loop every train_minibatch call comes right after
\* exactly one next_minibatch fetch on the training reader (no fetch ahead),
\* every train_minibatch call is followed by exactly one progress update
\* before the next fetch, and epoch_summary is called once per epoch, after
\* the epoch's last minibatch and before the next epoch's first fetch.
C7_LoopOrder ==
    [][/\ train_calls' # train_calls =>
             /\ last = "fetch"
             /\ train_calls' = train_calls + 1
             /\ batch_data[1].reader = TRAIN_MAP
             /\ NumRequests(requests) + epoch * BatchesPerEpoch = train_calls + 1
       /\ requested'[TRAIN_MAP] # requested[TRAIN_MAP] =>
             /\ NumRequests(requests') = NumRequests(requests) + 1
             /\ NumRequests(requests) + epoch * BatchesPerEpoch = train_calls
             /\ updates = train_calls
             /\ summaries = epoch
             /\ last = (IF NumRequests(requests) > 0 THEN "update"
                        ELSE IF epoch > 0 THEN "summary" ELSE "none")
       /\ updates' # updates =>
             /\ last = "train"
             /\ updates' = updates + 1
             /\ updates' = train_calls
       /\ (last = "train" /\ last' # last) => updates' = updates + 1
       /\ summaries' # summaries =>
             /\ summaries' = summaries + 1
             /\ summaries' = epoch'
             /\ last = "update"
             /\ NumRequests(requests) = BatchesPerEpoch
             /\ train_calls = epoch' * BatchesPerEpoch
       /\ (last = "summary" /\ last' # last /\ pc \in LoopPcs) =>
             (last' = "fetch" /\ NumRequests(requests') = 1)]_vars

C7_Witness ==
    /\ pc = "train_minibatch"
    /\ last = "fetch"
    /\ epoch = 1
    /\ summaries = 1
    /\ NumRequests(requests) = 1

\* C8: with train_map.txt or CIFAR-10_mean.xml missing the training cell
\* raises RuntimeError before the model and trainer are built and no
\* next_minibatch or train_minibatch call ever happens; with test_map.txt
\* missing the test cell raises RuntimeError before any test_minibatch call
\* and no test error rate is reported.
C8_MissingFileStopsPipeline ==
    [][/\ (pc = "train_create_reader"
           /\ (TRAIN_MAP \notin files \/ MEAN_FILE \notin files)) =>
             (pc' = "train_failed" /\ error' = "RuntimeError")
       /\ pc = "train_failed" => FALSE
       /\ pc' = "train_failed" =>
             /\ ~trainer'
             /\ requested' = [f \in {TRAIN_MAP, TEST_MAP} |-> 0]
             /\ train_calls' = 0
             /\ test_calls' = 0
             /\ ~reported'
       /\ (pc = "test_create_reader" /\ TEST_MAP \notin files /\ pc' # pc) =>
             (pc' = "test_failed" /\ error' = "RuntimeError")
       /\ pc = "test_failed" => FALSE
       /\ pc' = "test_failed" =>
             /\ test_calls' = 0
             /\ requested'[TEST_MAP] = 0
             /\ metric_per_batch' = <<>>
             /\ ~reported']_vars

C8_Witness ==
    /\ pc = "test_failed"
    /\ error = "RuntimeError"
    /\ TEST_MAP \notin files
    /\ MEAN_FILE \in files
    /\ train_calls > 0
    /\ test_calls = 0

\* C9: in the test cell batch_weight is as long as metric_per_batch, its i-th
\* weight is the size that was asked of the reader for the batch the i-th
\* metric was computed on, and the weights sum to epoch_size.
C9_WeightsLineUp ==
    pc \in AfterListPcs =>
        /\ Len(batch_weight) = Len(metric_per_batch)
        /\ NumRequests(requests) = Len(metric_per_batch)
        /\ \A i \in 1..Len(metric_per_batch) :
              /\ metric_per_batch[i].batch.size = Sizes(requests)[i]
              /\ batch_weight[i] = metric_per_batch[i].batch.size
        /\ SumSeq(batch_weight) = cfg.test_epoch_size

C9_Witness ==
    /\ pc = "report"
    /\ Len(metric_per_batch) = 3
    /\ batch_weight = <<2, 2, 1>>
    /\ metric_per_batch[3].batch.size = 1

====
